---- MODULE Spec2Model ----
(***************************************************************************)
(* Garmin credential bridge and workout-import reconciliation of the       *)
(* transformation-coaching backend (backend/app/api/athlete.py, coach.py,  *)
(* garmin.py and backend/app/services/garmin_service.py).                  *)
(*                                                                         *)
(* Every request handler is one action.  A handler runs inside one         *)
(* database session: the session is committed when the handler returns     *)
(* and rolled back when it raises (tests/conftest.py, override_get_db).    *)
(* Nullable columns are sequences: <<>> is NULL, <<v>> is the value v.     *)
(***************************************************************************)
EXTENDS Integers, Sequences, FiniteSets, TLC

\* ---------------------------------------------------------------- bounds
MaxShared == 2
MaxBatch == 2
MaxImportBatch == 1
MaxTime == 1
MaxPlainLen == 2
MaxFetched == 2

\* ------------------------------------------------------------ the users
Athletes == {1, 2}
Coaches == {3}
CoachId == CHOOSE c \in Coaches : TRUE
Users == Athletes \cup Coaches
UserRole == [u \in Users |-> IF u = CoachId THEN "coach" ELSE "athlete"]
\* User.coach_id: athlete 1 is linked to the coach, athlete 2 to nobody
UserCoach == [u \in Users |-> IF u = 1 THEN <<CoachId>> ELSE <<>>]
\* the ids a share request may name as its athlete (9 is nobody's id)
RequestedAthleteIds == Users \cup {9}

\* the coach's cached workouts: row id -> garmin_workout_id
WorkoutIds == {1, 2}
GarminWorkoutId == [w \in WorkoutIds |-> IF w = 1 THEN "g1" ELSE "g2"]
\* garmin ids a share request may name ("g9" is in nobody's cache)
RequestedGarminIds == {"g1", "g2", "g9"}
\* what the column workout_data holds: a JSON object, JSON that is not an
\* object, or text that is not JSON
PayloadKinds == {"object", "scalar", "corrupt"}

\* the users who connect a Garmin account in this model; the shares of the
\* other athlete are the foreign rows of the ownership checks
GarminUsers == {1}

\* workoutId values the remote service assigns, and request times
RemoteIds == {901}
Times == 1..MaxTime

NULL == <<>>
Some(v) == <<v>>

\* ------------------------------------------------------------- messages
MsgNotFound == "Shared workout not found or does not belong to you"
MsgAlreadyImported == "This workout has already been imported"
MsgCorrupted == "Workout data is corrupted. Ask your coach to re-share this workout."
ErrCorrupted == "Corrupted workout data"
MsgImportedOk == "imported successfully to your Garmin account"
MsgSvcImported == "Workout imported successfully to Garmin Connect"
MsgSvcAuth == "Authentication failed for athlete's Garmin account. The athlete needs to re-enter their Garmin credentials."
MsgSvcConn == "Could not connect to Garmin Connect. Please try again in a few minutes."
MsgSvcOther == "Error importing workout: <exception text>"
MsgTestOk == "Successfully connected to Garmin Connect as <name>"
MsgTestAuth == "Authentication failed. The Garmin Connect credentials are invalid. Please verify the email and password are correct and that the account exists."
MsgTestConn == "Could not connect to Garmin Connect servers. This may be a temporary issue. Please try again in a few minutes."
MsgTestOther == "Unexpected error connecting to Garmin Connect: <exception text>"
MsgFetchOk == "Workouts fetched successfully"
MsgFetchAuth == "Authentication failed. Please re-enter your Garmin credentials."
MsgFetchConn == "Could not connect to Garmin Connect. Please try again later."
MsgFetchOther == "Error fetching workouts: <exception text>"
MsgDetailsOk == "Workout details fetched"
MsgDetailsOther == "Error fetching workout details: "
MsgCheckOk == "Connected to Garmin Connect as <name>. Ready for workout sync."
MsgCheckAuth == "Cannot authenticate with Garmin Connect. The stored credentials are invalid."
MsgCheckConn == "Cannot reach Garmin Connect servers."
MsgCheckOther == "Unexpected error: <exception text>"

VARIABLES
    shared_workouts,   \* table shared_workouts: row id = index
    workouts,          \* table workouts: row id -> kind of workout_data
    garmin_credentials,\* table garmin_credentials: user -> NULL or <<row>>
    last,              \* the last request: its input, response and item log
    inflight,          \* requests suspended at an await: their position
    workout_cache      \* table workouts as the fetch upserts it: row id = index

vars == <<shared_workouts, workouts, garmin_credentials, last, inflight,
          workout_cache>>

\* ------------------------------------------------------------- the rows
NewSharedWorkout(w, a) ==
    [workout_id |-> w, athlete_id |-> a, status |-> "pending",
     import_error |-> NULL, garmin_import_id |-> NULL, imported_at |-> NULL]

\* ------------------------------------------------- the remote service
\* What the remote service does for one login + call: login is the result
\* of Garmin.login, call the result of the operation made after it.
LoginOutcomes == {"ok", "auth", "conn", "other"}
SaveOutcomes == {"dict_id", "dict_noid", "nondict", "auth", "conn", "other"}
ImportOutcomes ==
    [login : LoginOutcomes \ {"ok"}, save : {"other"}, id : {901}]
    \cup [login : {"ok"}, save : SaveOutcomes \ {"dict_id"}, id : {901}]
    \cup [login : {"ok"}, save : {"dict_id"}, id : RemoteIds]
NoOutcome == [login |-> "other", save |-> "other", id |-> 901]

\* The except clauses of the try block of each GarminService operation, in
\* source order.  What the try block raises is "auth"
\* (GarminConnectAuthenticationError), "conn" (GarminConnectConnectionError)
\* or "other" (any other subclass of Exception: the InvalidToken of
\* decrypt_value, the TypeError of dict(workout_data), a KeyError, ...).
ServiceOperations ==
    {"test_connection", "get_workouts", "get_workout_details",
     "import_workout", "check_athlete_connection"}

ExceptClauses_NoCatchAll(operation) ==
    IF operation = "get_workout_details" THEN <<"Exception">>
    ELSE <<"auth", "conn">>

ExceptClauses(operation) ==
    IF operation = "get_workout_details" THEN <<"Exception">>
    ELSE <<"auth", "conn", "Exception">>

\* The clause that handles an exception of class kind: the first one it is
\* an instance of; "unhandled" when there is none and it propagates.
Handler(operation, kind) ==
    LET clauses == ExceptClauses(operation)
        matching == {i \in 1..Len(clauses) : clauses[i] \in {kind, "Exception"}}
    IN IF matching = {} THEN "unhandled"
       ELSE clauses[CHOOSE i \in matching : \A j \in matching : i <= j]

\* GarminService.import_workout: the tuple (success, message, garmin_id)
\* it returns, with the number of remote logins and uploads it made;
\* raised when an exception leaves it instead.
SvcFail(msg, logins, uploads) ==
    [raised |-> FALSE, success |-> FALSE, message |-> msg, garmin_id |-> NULL,
     logins |-> logins, uploads |-> uploads]

SvcExcept(kind, logins, uploads) ==
    LET h == Handler("import_workout", kind) IN
    CASE h = "auth" -> SvcFail(MsgSvcAuth, logins, uploads)
      [] h = "conn" -> SvcFail(MsgSvcConn, logins, uploads)
      [] h = "Exception" -> SvcFail(MsgSvcOther, logins, uploads)
      [] OTHER -> [SvcFail(kind, logins, uploads) EXCEPT !.raised = TRUE]

import_workout_LoginFirst(cred, payload, oc) ==
    IF oc.login # "ok" THEN SvcExcept(oc.login, 1, 0)
    ELSE IF ~cred.decryptable THEN SvcExcept("other", 1, 0)
    ELSE SvcExcept("other", 1, 1)

import_workout_RetryLogin(cred, payload, oc) ==
    IF ~cred.decryptable THEN SvcExcept("other", 0, 0)
    ELSE IF oc.login # "ok" THEN SvcExcept(oc.login, 2, 0)
    ELSE IF payload # "object" THEN SvcExcept("other", 1, 0)
    ELSE IF oc.save \in {"auth", "conn", "other"} THEN SvcExcept(oc.save, 1, 1)
    ELSE [raised |-> FALSE, success |-> TRUE, message |-> MsgSvcImported,
          garmin_id |-> CASE oc.save = "dict_id" -> Some(ToString(oc.id))
                          [] oc.save = "dict_noid" -> Some("")
                          [] OTHER -> NULL,
          logins |-> 1, uploads |-> 1]

import_workout(cred, payload, oc) ==
    IF ~cred.decryptable THEN SvcExcept("other", 0, 0)
    ELSE IF oc.login # "ok" THEN SvcExcept(oc.login, 1, 0)
    ELSE IF payload # "object" THEN SvcExcept("other", 1, 0)
    ELSE IF oc.save \in {"auth", "conn", "other"} THEN SvcExcept(oc.save, 1, 1)
    ELSE [raised |-> FALSE, success |-> TRUE, message |-> MsgSvcImported,
          garmin_id |-> CASE oc.save = "dict_id" -> Some(ToString(oc.id))
                          [] oc.save = "dict_noid" -> Some("")
                          [] OTHER -> NULL,
          logins |-> 1, uploads |-> 1]

\* ---------------------------------------------------- import_workouts
ImportWorkoutResult(id, ok, msg, gid) ==
    [shared_workout_id |-> id, success |-> ok, message |-> msg,
     garmin_import_id |-> gid]

\* the up-front check of the caller's credential record
NotConnected_OnlyMissing(creds) == creds = NULL

NotConnected(creds) == creds = NULL \/ ~creds[1].is_connected

\* the select of one shared workout scoped to the caller
SelectShared_AnyAthlete(tbl, sw_id, athlete) ==
    IF sw_id \in 1..Len(tbl) THEN Some(tbl[sw_id]) ELSE NULL

SelectShared(tbl, sw_id, athlete) ==
    IF sw_id \in 1..Len(tbl) /\ tbl[sw_id].athlete_id = athlete
    THEN Some(tbl[sw_id]) ELSE NULL

\* the short-circuit on shared.status
AlreadyImported_Never(shared) == FALSE

AlreadyImported_OrFailed(shared) == shared.status \in {"imported", "failed"}

AlreadyImported(shared) == shared.status = "imported"

\* json.loads(shared.workout.workout_data) raises JSONDecodeError
JSONDecodeError(payload) == payload = "corrupt"

\* the writes of the three outcomes of an iteration
MarkCorrupted_NoError(tbl, sw_id) ==
    [tbl EXCEPT ![sw_id].status = "failed"]

MarkCorrupted(tbl, sw_id) ==
    [tbl EXCEPT ![sw_id].status = "failed",
                ![sw_id].import_error = Some(ErrCorrupted)]

MarkImported_NoId(tbl, sw_id, garmin_id, now) ==
    [tbl EXCEPT ![sw_id].status = "imported",
                ![sw_id].imported_at = Some(now)]

MarkImported(tbl, sw_id, garmin_id, now) ==
    [tbl EXCEPT ![sw_id].status = "imported",
                ![sw_id].imported_at = Some(now),
                ![sw_id].garmin_import_id = garmin_id]

MarkFailed_Pending(tbl, sw_id, message) ==
    [tbl EXCEPT ![sw_id].status = "pending",
                ![sw_id].import_error = Some(message)]

MarkFailed(tbl, sw_id, message) ==
    [tbl EXCEPT ![sw_id].status = "failed",
                ![sw_id].import_error = Some(message)]

\* One iteration of the loop over data.shared_workout_ids: the table after
\* it, the result appended, and what GarminService.import_workout returned
\* (NULL when it was not called).  An exception that leaves the adapter
\* leaves the iteration too, and no result is appended.
ItemDone(tbl, svc, result) ==
    [tbl |-> tbl, svc |-> svc, result |-> result, raised |-> FALSE]

ImportItem(tbl, wk, cred, athlete, sw_id, oc, now) ==
    LET sel == SelectShared(tbl, sw_id, athlete) IN
    IF sel = NULL
    THEN ItemDone(tbl, NULL, ImportWorkoutResult(sw_id, FALSE, MsgNotFound, NULL))
    ELSE
    LET shared == sel[1] IN
    IF AlreadyImported(shared)
    THEN ItemDone(tbl, NULL,
                  ImportWorkoutResult(sw_id, FALSE, MsgAlreadyImported, NULL))
    ELSE IF JSONDecodeError(wk[shared.workout_id])
    THEN ItemDone(MarkCorrupted(tbl, sw_id), NULL,
                  ImportWorkoutResult(sw_id, FALSE, MsgCorrupted, NULL))
    ELSE
    LET r == import_workout(cred, wk[shared.workout_id], oc) IN
    IF r.raised
    THEN [tbl |-> tbl, svc |-> Some(r), result |-> NULL, raised |-> TRUE]
    ELSE IF r.success
    THEN ItemDone(MarkImported(tbl, sw_id, r.garmin_id, now), Some(r),
                  ImportWorkoutResult(sw_id, TRUE, MsgImportedOk, r.garmin_id))
    ELSE ItemDone(MarkFailed(tbl, sw_id, r.message), Some(r),
                  ImportWorkoutResult(sw_id, FALSE, r.message, NULL))

\* The ids of the rows an iteration changed.
Touched(before, after) == {j \in 1..Len(before) : after[j] # before[j]}

\* The row with primary key sw_id, whoever it belongs to (NULL for none).
RowOf(tbl, sw_id) == IF sw_id \in 1..Len(tbl) THEN Some(tbl[sw_id]) ELSE NULL

\* The ids the loop goes on with after an iteration that appended a result:
\* every branch ends in continue or falls off the end of the body.
Remaining_StopOnFailure(ids, it) ==
    IF it.result.success THEN Tail(ids) ELSE <<>>

Remaining(ids, it) == Tail(ids)

\* The loop.  The item log holds, per requested id in order: the row with
\* that id before and after the iteration, the ids of the rows the iteration
\* changed, what the remote service did (oc), what the adapter returned
\* (svc) and the result appended.  The loop ends at an iteration that
\* raises.
ImportLogEntry(tbl, it, sw_id, oc) ==
    [sw_id |-> sw_id, pre |-> RowOf(tbl, sw_id), post |-> RowOf(it.tbl, sw_id),
     touched |-> Touched(tbl, it.tbl), oc |-> oc, svc |-> it.svc,
     result |-> it.result]

\* the loop with every iteration reading the rows as they were when the
\* request began
RECURSIVE ImportLoopFrom(_, _, _, _, _, _, _, _, _)
ImportLoopFrom(base, tbl, wk, cred, athlete, ids, ocs, now, log) ==
    IF ids = <<>> THEN [tbl |-> tbl, log |-> log, raised |-> FALSE]
    ELSE LET it == ImportItem(base, wk, cred, athlete, Head(ids), Head(ocs), now)
             entry == ImportLogEntry(base, it, Head(ids), Head(ocs))
             merged == [j \in 1..Len(tbl) |->
                           IF j \in Touched(base, it.tbl) THEN it.tbl[j] ELSE tbl[j]]
         IN IF it.raised
            THEN [tbl |-> merged, log |-> Append(log, entry), raised |-> TRUE]
            ELSE ImportLoopFrom(base, merged, wk, cred, athlete,
                                Remaining(ids, it), Tail(ocs), now,
                                Append(log, entry))

ImportLoop_StaleRows(tbl, wk, cred, athlete, ids, ocs, now, log) ==
    ImportLoopFrom(tbl, tbl, wk, cred, athlete, ids, ocs, now, log)

RECURSIVE ImportLoop(_, _, _, _, _, _, _, _)
ImportLoop(tbl, wk, cred, athlete, ids, ocs, now, log) ==
    IF ids = <<>> THEN [tbl |-> tbl, log |-> log, raised |-> FALSE]
    ELSE LET it == ImportItem(tbl, wk, cred, athlete, Head(ids), Head(ocs), now)
             entry == ImportLogEntry(tbl, it, Head(ids), Head(ocs))
         IN IF it.raised
            THEN [tbl |-> it.tbl, log |-> Append(log, entry), raised |-> TRUE]
            ELSE ImportLoop(it.tbl, wk, cred, athlete, Remaining(ids, it),
                            Tail(ocs), now, Append(log, entry))

\* What is recorded of a request: the operation, the caller, the HTTP
\* status of the response, and the per-item log of its loop.
Request(op, user, http, log) ==
    [op |-> op, user |-> user, http |-> http, log |-> log, input |-> <<>>]

\* an import request also records the ids it named, with the behaviour of
\* the remote service for each
ImportRequested(athlete, http, log, ids, ocs) ==
    [Request("import", athlete, http, log) EXCEPT !.input = [ids |-> ids, ocs |-> ocs]]

SeqsUpTo(S, n) == UNION {[1..k -> S] : k \in 0..n}

\* The session's outcome: commit when the handler returned, rollback when
\* it raised or was cancelled.
Commit(raised, before, after) == IF raised THEN before ELSE after

import_workouts_MarkDisconnected(athlete, ids, ocs, now) ==
    LET creds == garmin_credentials[athlete] IN
    IF NotConnected(creds)
    THEN /\ last' = ImportRequested(athlete, 400, <<>>, ids, ocs)
         /\ UNCHANGED <<shared_workouts, workouts, garmin_credentials>>
    ELSE LET run == ImportLoop(shared_workouts, workouts, creds[1], athlete,
                               ids, ocs, now, <<>>)
             rejected == \E k \in 1..Len(run.log) :
                             /\ run.log[k].svc # NULL
                             /\ run.log[k].svc[1].message = MsgSvcAuth
         IN /\ shared_workouts' = Commit(run.raised, shared_workouts, run.tbl)
            /\ last' = ImportRequested(athlete, IF run.raised THEN 500 ELSE 200,
                                       run.log, ids, ocs)
            /\ garmin_credentials' =
                   IF rejected /\ ~run.raised
                   THEN [garmin_credentials EXCEPT
                            ![athlete] = Some([creds[1] EXCEPT
                                                  !.is_connected = FALSE])]
                   ELSE garmin_credentials
            /\ UNCHANGED workouts

import_workouts(athlete, ids, ocs, now) ==
    LET creds == garmin_credentials[athlete] IN
    IF NotConnected(creds)
    THEN /\ last' = ImportRequested(athlete, 400, <<>>, ids, ocs)
         /\ UNCHANGED <<shared_workouts, workouts, garmin_credentials>>
    ELSE LET run == ImportLoop(shared_workouts, workouts, creds[1], athlete,
                               ids, ocs, now, <<>>)
         IN /\ shared_workouts' = Commit(run.raised, shared_workouts, run.tbl)
            /\ last' = ImportRequested(athlete, IF run.raised THEN 500 ELSE 200,
                                       run.log, ids, ocs)
            /\ UNCHANGED <<workouts, garmin_credentials>>

\* ------------------------------------------------ remove_shared_workout
\* the status the handler writes to the row it selected
RemovedStatus_ActiveOnly(shared) ==
    IF shared.status \in {"pending", "imported"} THEN "removed" ELSE shared.status

RemovedStatus(shared) == "removed"

remove_shared_workout_AnyAthlete(athlete, sw_id) ==
    LET sel == RowOf(shared_workouts, sw_id)
        entry == [sw_id |-> sw_id, pre |-> RowOf(shared_workouts, sw_id)]
    IN IF sel = NULL
       THEN /\ last' = Request("remove", athlete, 404, <<entry>>)
            /\ UNCHANGED <<shared_workouts, workouts, garmin_credentials>>
       ELSE /\ shared_workouts' =
                   [shared_workouts EXCEPT ![sw_id].status = RemovedStatus(sel[1])]
            /\ last' = Request("remove", athlete, 200, <<entry>>)
            /\ UNCHANGED <<workouts, garmin_credentials>>

remove_shared_workout(athlete, sw_id) ==
    LET sel == SelectShared(shared_workouts, sw_id, athlete)
        entry == [sw_id |-> sw_id, pre |-> RowOf(shared_workouts, sw_id)]
    IN IF sel = NULL
       THEN /\ last' = Request("remove", athlete, 404, <<entry>>)
            /\ UNCHANGED <<shared_workouts, workouts, garmin_credentials>>
       ELSE /\ shared_workouts' =
                   [shared_workouts EXCEPT ![sw_id].status = RemovedStatus(sel[1])]
            /\ last' = Request("remove", athlete, 200, <<entry>>)
            /\ UNCHANGED <<workouts, garmin_credentials>>

\* ------------------------------------------ share_workouts_with_athlete
\* The rows the "already shared" select matches.
ActiveShares(tbl, w, athlete_id) ==
    {i \in 1..Len(tbl) : /\ tbl[i].workout_id = w
                         /\ tbl[i].athlete_id = athlete_id
                         /\ tbl[i].status \in {"pending", "imported"}}

\* The rows the select of the coach's cached workout matches.
CachedWorkouts(gw_id) == {w \in WorkoutIds : GarminWorkoutId[w] = gw_id}

\* One iteration of the loop over data.garmin_workout_ids.  Both selects end
\* in scalar_one_or_none, which raises MultipleResultsFound when more than
\* one row matches.  The entry holds the cached workout found, the number
\* of rows the "already shared" select matched, the outcome and the id of
\* the row added.
ShareEntry(athlete_id, gw_id, workout, active, outcome, row) ==
    [athlete_id |-> athlete_id, gw_id |-> gw_id, workout |-> workout,
     active |-> active, outcome |-> outcome, row |-> row]

ShareItem(tbl, athlete_id, gw_id) ==
    LET found == CachedWorkouts(gw_id) IN
    IF found = {}
    THEN [tbl |-> tbl, entry |-> ShareEntry(athlete_id, gw_id, NULL, 0, "not_in_cache", NULL)]
    ELSE IF Cardinality(found) > 1
    THEN [tbl |-> tbl, entry |-> ShareEntry(athlete_id, gw_id, NULL, 0, "raised", NULL)]
    ELSE LET w == CHOOSE x \in found : TRUE
             existing == ActiveShares(tbl, w, athlete_id)
             n == Cardinality(existing)
         IN IF n > 1
            THEN [tbl |-> tbl, entry |-> ShareEntry(athlete_id, gw_id, Some(w), n, "raised", NULL)]
            ELSE IF n = 1
            THEN [tbl |-> tbl,
                  entry |-> ShareEntry(athlete_id, gw_id, Some(w), n, "already_shared", NULL)]
            ELSE [tbl |-> Append(tbl, NewSharedWorkout(w, athlete_id)),
                  entry |-> ShareEntry(athlete_id, gw_id, Some(w), n, "shared",
                                       Some(Len(tbl) + 1))]

\* The loop stops at the first iteration that raises.
RECURSIVE ShareLoop(_, _, _, _)
ShareLoop(tbl, athlete_id, gw_ids, log) ==
    IF gw_ids = <<>> THEN [tbl |-> tbl, log |-> log, raised |-> FALSE]
    ELSE LET it == ShareItem(tbl, athlete_id, Head(gw_ids)) IN
         IF it.entry.outcome = "raised"
         THEN [tbl |-> it.tbl, log |-> Append(log, it.entry), raised |-> TRUE]
         ELSE ShareLoop(it.tbl, athlete_id, Tail(gw_ids), Append(log, it.entry))

share_workouts_with_athlete(coach, athlete_id, gw_ids) ==
    IF ~(athlete_id \in Users /\ UserRole[athlete_id] = "athlete")
    THEN /\ last' = Request("share", coach, 404, <<>>)
         /\ UNCHANGED <<shared_workouts, workouts, garmin_credentials>>
    ELSE LET run == ShareLoop(shared_workouts, athlete_id, gw_ids, <<>>) IN
         /\ shared_workouts' = Commit(run.raised, shared_workouts, run.tbl)
         /\ Len(shared_workouts') <= MaxShared
         /\ last' = Request("share", coach,
                            IF run.raised THEN 500 ELSE 200, run.log)
         /\ UNCHANGED <<workouts, garmin_credentials>>

\* --------------------------------------------- the credential endpoints
TestOutcomes ==
    [login : LoginOutcomes \ {"ok"}, call : {"ok"}]
    \cup [login : {"ok"}, call : LoginOutcomes]

\* GarminService.test_connection: the tuple (success, message)
test_connection(decryptable, oc) ==
    LET kind == IF ~decryptable THEN "other"
                ELSE IF oc.login # "ok" THEN oc.login ELSE oc.call
        h == IF kind = "ok" THEN "ok" ELSE Handler("test_connection", kind)
    IN CASE h = "ok" -> [raised |-> FALSE, success |-> TRUE, message |-> MsgTestOk]
         [] h = "auth" -> [raised |-> FALSE, success |-> FALSE, message |-> MsgTestAuth]
         [] h = "conn" -> [raised |-> FALSE, success |-> FALSE, message |-> MsgTestConn]
         [] h = "Exception" ->
                [raised |-> FALSE, success |-> FALSE, message |-> MsgTestOther]
         [] OTHER -> [raised |-> TRUE, success |-> FALSE, message |-> kind]

connect_garmin_account(user, oc, now) ==
    LET r == test_connection(TRUE, oc)
        row == [decryptable |-> TRUE, is_connected |-> r.success,
                connection_error |-> IF r.success THEN NULL ELSE Some(r.message),
                last_sync |-> IF r.success THEN Some(now) ELSE NULL]
    IN /\ garmin_credentials' =
              Commit(~r.success, garmin_credentials,
                     [garmin_credentials EXCEPT ![user] = Some(row)])
       /\ last' = Request("connect", user, IF r.success THEN 200 ELSE 400, <<>>)
       /\ UNCHANGED <<shared_workouts, workouts>>

test_garmin_connection(user, oc, now) ==
    LET creds == garmin_credentials[user] IN
    IF creds = NULL
    THEN /\ last' = Request("test", user, 400, <<>>)
         /\ UNCHANGED <<shared_workouts, workouts, garmin_credentials>>
    ELSE LET r == test_connection(creds[1].decryptable, oc) IN
         /\ garmin_credentials' =
                [garmin_credentials EXCEPT ![user] = Some(
                    [creds[1] EXCEPT !.is_connected = r.success,
                                     !.connection_error =
                                         IF r.success THEN NULL ELSE Some(r.message),
                                     !.last_sync =
                                         IF r.success THEN Some(now) ELSE @])]
         /\ last' = Request("test", user, 200, <<>>)
         /\ UNCHANGED <<shared_workouts, workouts>>

disconnect_garmin_KeepRow(user) ==
    LET creds == garmin_credentials[user] IN
    IF creds = NULL
    THEN /\ last' = Request("disconnect", user, 400, <<>>)
         /\ UNCHANGED <<shared_workouts, workouts, garmin_credentials>>
    ELSE /\ garmin_credentials' =
                [garmin_credentials EXCEPT ![user] =
                    Some([creds[1] EXCEPT !.is_connected = FALSE])]
         /\ last' = Request("disconnect", user, 200, <<>>)
         /\ UNCHANGED <<shared_workouts, workouts>>

disconnect_garmin(user) ==
    LET creds == garmin_credentials[user] IN
    IF creds = NULL
    THEN /\ last' = Request("disconnect", user, 400, <<>>)
         /\ UNCHANGED <<shared_workouts, workouts, garmin_credentials>>
    ELSE /\ garmin_credentials' = [garmin_credentials EXCEPT ![user] = NULL]
         /\ last' = Request("disconnect", user, 200, <<>>)
         /\ UNCHANGED <<shared_workouts, workouts>>

\* ------------------------------------- the other GarminService operations
\* Sport keys are sequences of characters.
ToLower ==
    [c \in {"R", "U", "N", "C", "Y"} |->
        CASE c = "R" -> "r" [] c = "U" -> "u" [] c = "N" -> "n"
          [] c = "C" -> "c" [] c = "Y" -> "y"]

\* str.lower()
Lower(key) ==
    [i \in 1..Len(key) |-> IF key[i] \in DOMAIN ToLower THEN ToLower[key[i]]
                           ELSE key[i]]

\* pattern in key
Contains(key, pattern) ==
    \E i \in 1..(Len(key) - Len(pattern) + 1) :
        SubSeq(key, i, i + Len(pattern) - 1) = pattern

S_running == <<"r", "u", "n", "n", "i", "n", "g">>
S_run == <<"r", "u", "n">>
S_cycling == <<"c", "y", "c", "l", "i", "n", "g">>
S_bik == <<"b", "i", "k">>
S_swim == <<"s", "w", "i", "m">>
S_strength == <<"s", "t", "r", "e", "n", "g", "t", "h">>
S_cardio == <<"c", "a", "r", "d", "i", "o">>

\* the workout_type get_workouts assigns to a workout with this sport key
WorkoutType(raw_key) ==
    LET sport_key == Lower(raw_key) IN
    IF Contains(sport_key, S_running) \/ Contains(sport_key, S_run) THEN "running"
    ELSE IF Contains(sport_key, S_cycling) \/ Contains(sport_key, S_bik) THEN "cycling"
    ELSE IF Contains(sport_key, S_swim) THEN "swimming"
    ELSE IF Contains(sport_key, S_strength) \/ Contains(sport_key, S_cardio)
    THEN "strength"
    ELSE "other"

\* GarminService.get_workouts: the tuple (success, message, workouts), for
\* the list raw of workouts the remote service returns
get_workouts(decryptable, oc, raw) ==
    LET kind == IF ~decryptable THEN "other"
                ELSE IF oc.login # "ok" THEN oc.login ELSE oc.call
        h == IF kind = "ok" THEN "ok" ELSE Handler("get_workouts", kind)
        fail(msg) == [raised |-> FALSE, success |-> FALSE, message |-> msg,
                      workouts |-> <<>>]
    IN CASE h = "ok" ->
                [raised |-> FALSE, success |-> TRUE, message |-> MsgFetchOk,
                 workouts |->
                     [i \in 1..Len(raw) |->
                         [garmin_workout_id |-> raw[i].workoutId,
                          workout_type |-> WorkoutType(raw[i].sportTypeKey)]]]
         [] h = "auth" -> fail(MsgFetchAuth)
         [] h = "conn" -> fail(MsgFetchConn)
         [] h = "Exception" -> fail(MsgFetchOther)
         [] OTHER -> [fail(kind) EXCEPT !.raised = TRUE]

\* GarminService.get_workout_details: the tuple (success, message, workout).
\* Its one except clause builds the message from str(e), the text of the
\* exception caught, whatever its class.
get_workout_details(decryptable, oc, text) ==
    LET kind == IF ~decryptable THEN "other"
                ELSE IF oc.login # "ok" THEN oc.login ELSE oc.call
        h == IF kind = "ok" THEN "ok" ELSE Handler("get_workout_details", kind)
    IN CASE h = "ok" -> [raised |-> FALSE, success |-> TRUE, message |-> MsgDetailsOk]
         [] h = "Exception" ->
                [raised |-> FALSE, success |-> FALSE,
                 message |-> <<MsgDetailsOther, text>>]
         [] OTHER -> [raised |-> TRUE, success |-> FALSE, message |-> kind]

\* GarminService.check_athlete_connection: the keys is_connected and message
\* of the dictionary it returns
check_athlete_connection(decryptable, oc) ==
    LET kind == IF ~decryptable THEN "other"
                ELSE IF oc.login # "ok" THEN oc.login ELSE oc.call
        h == IF kind = "ok" THEN "ok"
             ELSE Handler("check_athlete_connection", kind)
    IN CASE h = "ok" -> [raised |-> FALSE, success |-> TRUE, message |-> MsgCheckOk]
         [] h = "auth" -> [raised |-> FALSE, success |-> FALSE, message |-> MsgCheckAuth]
         [] h = "conn" -> [raised |-> FALSE, success |-> FALSE, message |-> MsgCheckConn]
         [] h = "Exception" ->
                [raised |-> FALSE, success |-> FALSE, message |-> MsgCheckOther]
         [] OTHER -> [raised |-> TRUE, success |-> FALSE, message |-> kind]

\* The payload import_workout hands to client.save_workout: a copy of the
\* deserialized workout_data with four keys popped.
StrippedFields == {"workoutId", "ownerId", "createdDate", "updatedDate"}

ImportData_KeepOwner(workout_data) ==
    [f \in DOMAIN workout_data \ (StrippedFields \ {"ownerId"}) |-> workout_data[f]]

ImportData(workout_data) ==
    [f \in DOMAIN workout_data \ StrippedFields |-> workout_data[f]]

\* -------------------------------------------------- the credential vault
\* Strings are sequences of code points, byte strings sequences of bytes.
KeyLen == 32

\* str.encode(): UTF-8 of code points below 2048
Utf8Char(c) == IF c < 128 THEN <<c>> ELSE <<192 + (c \div 64), 128 + (c % 64)>>

RECURSIVE Utf8Encode(_)
Utf8Encode(str) ==
    IF str = <<>> THEN <<>> ELSE Utf8Char(Head(str)) \o Utf8Encode(Tail(str))

\* bytes.decode(): the string, or the UnicodeDecodeError raised
RECURSIVE Utf8Decode(_)
Utf8Decode(bytes) ==
    IF bytes = <<>> THEN [raised |-> FALSE, value |-> <<>>]
    ELSE LET b == Head(bytes) IN
         IF b < 128
         THEN LET rest == Utf8Decode(Tail(bytes)) IN
              IF rest.raised THEN rest
              ELSE [raised |-> FALSE, value |-> <<b>> \o rest.value]
         ELSE IF /\ b \in 194..223
                 /\ Len(bytes) >= 2
                 /\ bytes[2] \in 128..191
         THEN LET rest == Utf8Decode(Tail(Tail(bytes))) IN
              IF rest.raised THEN rest
              ELSE [raised |-> FALSE,
                    value |-> <<(b - 192) * 64 + (bytes[2] - 128)>> \o rest.value]
         ELSE [raised |-> TRUE, value |-> "UnicodeDecodeError"]

\* _get_fernet: the configured secret truncated and padded with zero bytes
\* to the key length
FernetKey(secret) ==
    [i \in 1..KeyLen |-> IF i <= Len(secret) THEN secret[i] ELSE 0]

\* Fernet: the token carries the initialisation vector, the ciphertext (a
\* keyed, invertible transformation of the plaintext bytes) and a signature
\* over both under the key.
KeyStream(key, iv, i) == (key[((i - 1) % KeyLen) + 1] + iv + i) % 256

Signature(key, iv, ciphertext) == <<key, iv, ciphertext>>

FernetEncrypt(key, iv, data) ==
    LET ciphertext == [i \in 1..Len(data) |-> (data[i] + KeyStream(key, iv, i)) % 256]
    IN [iv |-> iv, ciphertext |-> ciphertext,
        hmac |-> Signature(key, iv, ciphertext)]

FernetDecrypt_NoUnmask(key, token) ==
    IF token.hmac # Signature(key, token.iv, token.ciphertext)
    THEN [raised |-> TRUE, value |-> "InvalidToken"]
    ELSE [raised |-> FALSE, value |-> token.ciphertext]

FernetDecrypt(key, token) ==
    IF token.hmac # Signature(key, token.iv, token.ciphertext)
    THEN [raised |-> TRUE, value |-> "InvalidToken"]
    ELSE [raised |-> FALSE,
          value |-> [i \in 1..Len(token.ciphertext) |->
                        (token.ciphertext[i] + 256 - KeyStream(key, token.iv, i)) % 256]]

\* encrypt_value and decrypt_value under the configured secret; iv is the
\* random initialisation vector Fernet draws
encrypt_value(secret, iv, plain) ==
    FernetEncrypt(FernetKey(secret), iv, Utf8Encode(plain))

decrypt_value(secret, token) ==
    LET data == FernetDecrypt(FernetKey(secret), token) IN
    IF data.raised THEN data ELSE Utf8Decode(data.value)

\* ------------------------------------------------------ the state machine
\* The remote service's behaviour is drawn for the requested ids that can
\* reach GarminService.import_workout; the others never consult it.
RECURSIVE OutcomeSeqs(_, _, _)
OutcomeSeqs(a, ids, outcomes) ==
    IF ids = <<>> THEN {<<>>}
    ELSE LET sel == SelectShared(shared_workouts, Head(ids), a)
             reach == /\ garmin_credentials[a] # NULL
                      /\ sel # NULL
                      /\ workouts[sel[1].workout_id] # "corrupt"
         IN {<<oc>> \o rest : oc \in IF reach THEN outcomes ELSE {NoOutcome},
                              rest \in OutcomeSeqs(a, Tail(ids), outcomes)}

\* Import requests that are not suspended run from start to end in one step.
Requests == {1, 2}
Idle == [pc |-> "idle", athlete |-> CoachId, sw_id |-> 0, shared |-> NULL,
         oc |-> NoOutcome, svc |-> NULL]
NoneInflight == [r \in Requests |-> Idle]

\* every behaviour of the remote service, for short requests
ImportRequest ==
    /\ \E a \in Athletes, now \in Times,
          ids \in SeqsUpTo(1..(Len(shared_workouts) + 1), MaxImportBatch) :
           \E ocs \in OutcomeSeqs(a, ids, ImportOutcomes) :
               import_workouts(a, ids, ocs, now)
    /\ UNCHANGED <<inflight, workout_cache>>

\* a remote service that accepts the upload or rejects the login
BasicOutcomes ==
    {oc \in ImportOutcomes : oc.login = "auth" \/ oc.save = "dict_id"}

ImportBasicRequest ==
    /\ \E a \in Athletes, now \in Times,
          ids \in SeqsUpTo(1..(Len(shared_workouts) + 1), MaxImportBatch) :
           \E ocs \in OutcomeSeqs(a, ids, BasicOutcomes) :
               import_workouts(a, ids, ocs, now)
    /\ UNCHANGED <<inflight, workout_cache>>

RemoveRequest ==
    /\ \E a \in Athletes, sw_id \in 1..(Len(shared_workouts) + 1) :
           remove_shared_workout(a, sw_id)
    /\ UNCHANGED <<inflight, workout_cache>>

ShareRequest ==
    /\ \E athlete_id \in RequestedAthleteIds,
          gw_ids \in SeqsUpTo(RequestedGarminIds, MaxBatch) :
           share_workouts_with_athlete(CoachId, athlete_id, gw_ids)
    /\ UNCHANGED <<inflight, workout_cache>>

ConnectRequest ==
    /\ \E u \in GarminUsers, oc \in TestOutcomes, now \in Times :
           connect_garmin_account(u, oc, now)
    /\ UNCHANGED <<inflight, workout_cache>>

TestRequest ==
    /\ \E u \in GarminUsers, oc \in TestOutcomes, now \in Times :
           test_garmin_connection(u, oc, now)
    /\ UNCHANGED <<inflight, workout_cache>>

DisconnectRequest ==
    /\ \E u \in GarminUsers : disconnect_garmin(u)
    /\ UNCHANGED <<inflight, workout_cache>>

\* --- the import flow.  Workout 1, with any kind of workout_data, has been
\* shared with each athlete; nobody has connected an account yet.
InitImport ==
    /\ \E k \in PayloadKinds :
           workouts = [w \in WorkoutIds |-> IF w = 1 THEN k ELSE "object"]
    /\ shared_workouts = <<NewSharedWorkout(1, 1), NewSharedWorkout(1, 2)>>
    /\ garmin_credentials = [u \in Athletes |-> NULL]
    /\ last = Request("none", CoachId, 200, <<>>)
    /\ inflight = NoneInflight
    /\ workout_cache = <<>>

NextImport ==
    \/ ImportRequest
    \/ RemoveRequest
    \/ ConnectRequest
    \/ TestRequest
    \/ DisconnectRequest

SpecImport == InitImport /\ [][NextImport]_vars

\* --- the sharing flow.  Both cached workouts are well-formed, nothing has
\* been shared yet, and athlete 1 has connected an account.
ConnectedCredentials ==
    [decryptable |-> TRUE, is_connected |-> TRUE, connection_error |-> NULL,
     last_sync |-> Some(1)]

InitShare ==
    /\ workouts = [w \in WorkoutIds |-> "object"]
    /\ shared_workouts = <<>>
    /\ garmin_credentials =
           [u \in Athletes |-> IF u \in GarminUsers
                                THEN Some(ConnectedCredentials) ELSE NULL]
    /\ last = Request("none", CoachId, 200, <<>>)
    /\ inflight = NoneInflight
    /\ workout_cache = <<>>

NextShare ==
    \/ ShareRequest
    \/ ImportBasicRequest
    \/ RemoveRequest

SpecShare == InitShare /\ [][NextShare]_vars

\* --- import batches.  Workouts 1 and 2 have been shared with athlete 1 and
\* workout 1 with athlete 2; the workout_data of workout 1 is or is not
\* JSON; athlete 1 has connected an account, and the stored ciphertext is or
\* is not one the server's key decrypts.  The batches are requested at one
\* instant: the loop reads the clock only to stamp imported_at.
BatchLen == MaxImportBatch + 1

ImportBatchRequest ==
    /\ \E a \in GarminUsers, now \in {MaxTime},
          ids \in SeqsUpTo(1..Len(shared_workouts), BatchLen) :
           \E ocs \in OutcomeSeqs(a, ids, BasicOutcomes) :
               import_workouts(a, ids, ocs, now)
    /\ UNCHANGED <<inflight, workout_cache>>

InitBatch ==
    /\ \E k \in {"object", "corrupt"} :
           workouts = [w \in WorkoutIds |-> IF w = 1 THEN k ELSE "object"]
    /\ shared_workouts = <<NewSharedWorkout(1, 1), NewSharedWorkout(2, 1),
                           NewSharedWorkout(1, 2)>>
    /\ \E d \in BOOLEAN :
           garmin_credentials =
               [u \in Athletes |->
                   IF u \in GarminUsers
                   THEN Some([ConnectedCredentials EXCEPT !.decryptable = d])
                   ELSE NULL]
    /\ last = Request("none", CoachId, 200, <<>>)
    /\ inflight = NoneInflight
    /\ workout_cache = <<>>

NextBatch == ImportBatchRequest

SpecBatch == InitBatch /\ [][NextBatch]_vars

\* --- cancelled imports.  The request is cancelled at an await after done
\* iterations of the loop: the handler never returns, and the session is
\* closed without a commit.
import_workouts_cancelled(athlete, ids, ocs, now, done) ==
    LET creds == garmin_credentials[athlete]
        run == ImportLoop(shared_workouts, workouts, creds[1], athlete,
                          SubSeq(ids, 1, done), SubSeq(ocs, 1, done), now, <<>>)
    IN /\ ~NotConnected(creds)
       /\ shared_workouts' = Commit(TRUE, shared_workouts, run.tbl)
       /\ last' = [ImportRequested(athlete, 0, run.log, ids, ocs)
                        EXCEPT !.op = "import_cancelled"]
       /\ UNCHANGED <<workouts, garmin_credentials>>

ImportCancelledRequest ==
    /\ \E a \in GarminUsers, now \in Times,
          ids \in SeqsUpTo(1..Len(shared_workouts), BatchLen) :
           \E ocs \in OutcomeSeqs(a, ids, BasicOutcomes), done \in 0..(Len(ids) - 1) :
               import_workouts_cancelled(a, ids, ocs, now, done)
    /\ UNCHANGED <<inflight, workout_cache>>

NextCancel ==
    \/ ImportCancelledRequest
    \/ ImportBasicRequest

SpecCancel == InitBatch /\ [][NextCancel]_vars

\* --- concurrent imports.  Each of two import requests for one id runs in
\* its own session and is suspended at its awaits: after the credential
\* check, after the select of the row, and after the remote call.
RowLocked_ForUpdate(r, sw_id) ==
    \E q \in Requests \ {r} :
        inflight[q].pc \in {"selected", "uploaded"} /\ inflight[q].sw_id = sw_id

\* the select takes no lock on the row (no with_for_update)
RowLocked(r, sw_id) == FALSE

\* the iteration ends before the remote call: not found, already imported,
\* or corrupted data
EndsEarly(athlete, sw_id) ==
    LET sel == SelectShared(shared_workouts, sw_id, athlete) IN
    \/ sel = NULL
    \/ AlreadyImported(sel[1])
    \/ JSONDecodeError(workouts[sel[1].workout_id])

Begin(r, a, sw_id) ==
    /\ inflight[r].pc = "idle"
    /\ IF NotConnected(garmin_credentials[a])
       THEN /\ last' = ImportRequested(a, 400, <<>>, <<sw_id>>, <<NoOutcome>>)
            /\ UNCHANGED inflight
       ELSE /\ inflight' = [inflight EXCEPT ![r] =
                               [Idle EXCEPT !.pc = "checked", !.athlete = a,
                                            !.sw_id = sw_id]]
            /\ UNCHANGED last
    /\ UNCHANGED <<shared_workouts, workouts, garmin_credentials, workout_cache>>

Select(r) ==
    LET a == inflight[r].athlete
        sw_id == inflight[r].sw_id
    IN /\ inflight[r].pc = "checked"
       /\ ~RowLocked(r, sw_id)
       /\ IF EndsEarly(a, sw_id)
          THEN LET it == ImportItem(shared_workouts, workouts,
                                    garmin_credentials[a][1], a, sw_id,
                                    NoOutcome, 1)
               IN /\ shared_workouts' = it.tbl
                  /\ last' = ImportRequested(a, 200,
                                 <<ImportLogEntry(shared_workouts, it, sw_id,
                                                  NoOutcome)>>,
                                 <<sw_id>>, <<NoOutcome>>)
                  /\ inflight' = [inflight EXCEPT ![r].pc = "done"]
          ELSE /\ inflight' = [inflight EXCEPT
                                  ![r].pc = "selected",
                                  ![r].shared = Some(shared_workouts[sw_id])]
               /\ UNCHANGED <<shared_workouts, last>>
       /\ UNCHANGED <<workouts, garmin_credentials, workout_cache>>

Upload(r, oc) ==
    LET a == inflight[r].athlete
        shared == inflight[r].shared[1]
    IN /\ inflight[r].pc = "selected"
       /\ inflight' = [inflight EXCEPT
                          ![r].pc = "uploaded",
                          ![r].oc = oc,
                          ![r].svc = Some(import_workout(garmin_credentials[a][1],
                                                         workouts[shared.workout_id],
                                                         oc))]
       /\ UNCHANGED <<shared_workouts, workouts, garmin_credentials, last,
                      workout_cache>>

\* the writes after the remote call, flushed and committed when the handler
\* returns: an UPDATE of the columns assigned
Finish(r, now) ==
    LET a == inflight[r].athlete
        sw_id == inflight[r].sw_id
        svc == inflight[r].svc[1]
        tbl == IF svc.success
               THEN MarkImported(shared_workouts, sw_id, svc.garmin_id, now)
               ELSE MarkFailed(shared_workouts, sw_id, svc.message)
        result == IF svc.success
                  THEN ImportWorkoutResult(sw_id, TRUE, MsgImportedOk, svc.garmin_id)
                  ELSE ImportWorkoutResult(sw_id, FALSE, svc.message, NULL)
    IN /\ inflight[r].pc = "uploaded"
       /\ shared_workouts' = tbl
       /\ last' = ImportRequested(a, 200,
                      <<[sw_id |-> sw_id, pre |-> inflight[r].shared,
                         post |-> Some(tbl[sw_id]),
                         touched |-> Touched(shared_workouts, tbl),
                         oc |-> inflight[r].oc, svc |-> inflight[r].svc,
                         result |-> result]>>,
                      <<sw_id>>, <<inflight[r].oc>>)
       /\ inflight' = [inflight EXCEPT ![r].pc = "done"]
       /\ UNCHANGED <<workouts, garmin_credentials, workout_cache>>

BeginStep ==
    \E r \in Requests, a \in GarminUsers, sw_id \in 1..(Len(shared_workouts) + 1) :
        Begin(r, a, sw_id)

SelectStep == \E r \in Requests : Select(r)

UploadStep == \E r \in Requests, oc \in BasicOutcomes : Upload(r, oc)

FinishStep == \E r \in Requests, now \in Times : Finish(r, now)

InitConcurrent ==
    /\ workouts = [w \in WorkoutIds |-> "object"]
    /\ shared_workouts = <<NewSharedWorkout(1, 1), NewSharedWorkout(2, 1)>>
    /\ garmin_credentials =
           [u \in Athletes |-> IF u \in GarminUsers
                                THEN Some(ConnectedCredentials) ELSE NULL]
    /\ last = Request("none", CoachId, 200, <<>>)
    /\ inflight = NoneInflight
    /\ workout_cache = <<>>

NextConcurrent ==
    \/ BeginStep
    \/ SelectStep
    \/ UploadStep
    \/ FinishStep

SpecConcurrent == InitConcurrent /\ [][NextConcurrent]_vars

\* --- the adapter and the vault on their own.  Each call of an operation is
\* recorded with its input and what it returned; an exception the operation
\* lets through ends the calling request with status 500.
ServiceCall(operation, user, input, result) ==
    Request(operation, user, IF result.raised THEN 500 ELSE 200,
            <<[input |-> input, result |-> result]>>)

SportKeyParts ==
    {<<>>, S_run, <<"R", "U", "N">>, S_bik, <<"c", "y", "c">>, <<"C", "Y", "C">>,
     S_cycling, S_swim, S_strength, S_cardio, <<"y", "o", "g", "a">>, <<"_">>}
SportKeys == {a \o b : a, b \in SportKeyParts}

PayloadFields == StrippedFields \cup {"workoutName", "sportType"}
Payloads == {[f \in F |-> <<f>>] : F \in SUBSET PayloadFields}

ServerSecrets == {<<7>>, <<7, 9>>}
IVs == {0, 255}
PlainChars == {97, 233}
Plaintexts == SeqsUpTo(PlainChars, MaxPlainLen)

TestConnectionCall ==
    /\ \E u \in GarminUsers, d \in BOOLEAN, oc \in TestOutcomes :
           last' = ServiceCall("test_connection", u,
                               [decryptable |-> d, oc |-> oc],
                               test_connection(d, oc))
    /\ UNCHANGED <<shared_workouts, workouts, garmin_credentials, inflight, workout_cache>>

GetWorkoutsCall ==
    /\ \E u \in GarminUsers, d \in BOOLEAN, oc \in TestOutcomes :
           \E key \in IF d /\ oc.login = "ok" /\ oc.call = "ok"
                      THEN SportKeys ELSE {<<>>} :
               last' = ServiceCall("get_workouts", u,
                                   [decryptable |-> d, oc |-> oc,
                                    sportTypeKey |-> key],
                                   get_workouts(d, oc,
                                                <<[workoutId |-> "g1",
                                                   sportTypeKey |-> key]>>))
    /\ UNCHANGED <<shared_workouts, workouts, garmin_credentials, inflight, workout_cache>>

\* the text an exception of the remote library carries: set where it is
\* raised, whatever the class of the exception
ExceptionTexts == {"401 Client Error", "Read timed out"}

GetWorkoutDetailsCall ==
    /\ \E u \in GarminUsers, d \in BOOLEAN, oc \in TestOutcomes,
          text \in ExceptionTexts :
           last' = ServiceCall("get_workout_details", u,
                               [decryptable |-> d, oc |-> oc, text |-> text],
                               get_workout_details(d, oc, text))
    /\ UNCHANGED <<shared_workouts, workouts, garmin_credentials, inflight, workout_cache>>

CheckAthleteConnectionCall ==
    /\ \E u \in GarminUsers, d \in BOOLEAN, oc \in TestOutcomes :
           last' = ServiceCall("check_athlete_connection", u,
                               [decryptable |-> d, oc |-> oc],
                               check_athlete_connection(d, oc))
    /\ UNCHANGED <<shared_workouts, workouts, garmin_credentials, inflight, workout_cache>>

\* import_workout on a deserialized payload: what it returned and the
\* payload the remote upload received, when one was made.  The fields of the
\* payload vary where the remote service accepts the upload; the payload
\* does not influence what the remote service answers.
ImportWorkoutCall ==
    /\ \E u \in GarminUsers, d \in BOOLEAN, oc \in ImportOutcomes :
           \E workout_data \in IF d /\ oc.login = "ok" /\ oc.save = "dict_id"
                               THEN Payloads ELSE {<<>>} :
               LET r == import_workout([decryptable |-> d], "object", oc) IN
               last' = ServiceCall("import_workout", u,
                                   [decryptable |-> d, oc |-> oc,
                                    workout_data |-> workout_data],
                                   [raised |-> r.raised, success |-> r.success,
                                    message |-> r.message,
                                    sent |-> IF r.uploads = 1
                                             THEN Some(ImportData(workout_data))
                                             ELSE NULL])
    /\ UNCHANGED <<shared_workouts, workouts, garmin_credentials, inflight, workout_cache>>

\* a value encrypted under one configured secret and decrypted under one
EncryptDecryptCall ==
    /\ \E u \in GarminUsers, secret \in ServerSecrets, current \in ServerSecrets,
          iv \in IVs, plain \in Plaintexts :
           last' = ServiceCall("decrypt_value", u,
                               [encrypted_under |-> secret,
                                decrypted_under |-> current, plain |-> plain],
                               decrypt_value(current,
                                             encrypt_value(secret, iv, plain)))
    /\ UNCHANGED <<shared_workouts, workouts, garmin_credentials, inflight, workout_cache>>

\* import requests next to the calls, all made at one instant
ImportNowRequest ==
    /\ \E a \in Athletes, now \in {MaxTime},
          ids \in SeqsUpTo(1..(Len(shared_workouts) + 1), MaxImportBatch) :
           \E ocs \in OutcomeSeqs(a, ids, ImportOutcomes) :
               import_workouts(a, ids, ocs, now)
    /\ UNCHANGED <<inflight, workout_cache>>

InitService ==
    /\ workouts = [w \in WorkoutIds |-> "object"]
    /\ shared_workouts = <<NewSharedWorkout(1, 1)>>
    /\ \E d \in BOOLEAN :
           garmin_credentials =
               [u \in Athletes |->
                   IF u \in GarminUsers
                   THEN Some([ConnectedCredentials EXCEPT !.decryptable = d])
                   ELSE NULL]
    /\ last = Request("none", CoachId, 200, <<>>)
    /\ inflight = NoneInflight
    /\ workout_cache = <<>>

NextService ==
    \/ TestConnectionCall
    \/ GetWorkoutsCall
    \/ GetWorkoutDetailsCall
    \/ CheckAthleteConnectionCall
    \/ ImportWorkoutCall
    \/ EncryptDecryptCall
    \/ ImportNowRequest

SpecService == InitService /\ [][NextService]_vars

\* --- the workout fetch.  get_my_garmin_workouts runs in its own session
\* and is suspended at the remote call and at the select of every iteration
\* of its loop.  A session reads the committed rows and what it has written
\* itself (its select flushes first); its writes are committed when the
\* handler returns and dropped when it raises.
NewWorkout(coach, w) ==
    [garmin_workout_id |-> w.garmin_workout_id, coach_id |-> coach,
     workout_type |-> w.workout_type]

\* table workouts as the session of a suspended request reads it
SessionRows(req) ==
    [i \in 1..Len(workout_cache) |->
        IF i \in DOMAIN req.updated THEN req.updated[i] ELSE workout_cache[i]]
    \o req.added

\* the rows the select of the upsert matches
UpsertMatches(rows, coach, gw_id) ==
    {i \in 1..Len(rows) : /\ rows[i].garmin_workout_id = gw_id
                          /\ rows[i].coach_id = coach}

IdleFetch ==
    [pc |-> "idle", coach |-> CoachId, todo |-> <<>>, added |-> <<>>,
     updated |-> <<>>]

FetchEntry(w, matched, outcome) ==
    [garmin_workout_id |-> w.garmin_workout_id, matched |-> matched,
     outcome |-> outcome]

\* the credential check and the remote call
FetchBegin(r, coach, oc, raw) ==
    LET creds == garmin_credentials[coach] IN
    /\ inflight[r].pc = "idle"
    /\ IF NotConnected(creds)
       THEN /\ last' = Request("fetch", coach, 400, <<>>)
            /\ UNCHANGED inflight
       ELSE LET res == get_workouts(creds[1].decryptable, oc, raw) IN
            IF res.raised \/ ~res.success
            THEN /\ last' = Request("fetch", coach,
                                    IF res.raised THEN 500 ELSE 502, <<>>)
                 /\ UNCHANGED inflight
            ELSE /\ inflight' = [inflight EXCEPT ![r] =
                                    [IdleFetch EXCEPT !.pc = "upserting",
                                                      !.coach = coach,
                                                      !.todo = res.workouts]]
                 /\ UNCHANGED last
    /\ UNCHANGED <<shared_workouts, workouts, garmin_credentials, workout_cache>>

\* one iteration of the loop over the fetched workouts: the select, ended by
\* scalar_one_or_none (which raises when it matched several rows), then the
\* update of the row found or the add of a new one
FetchUpsert(r) ==
    LET req == inflight[r]
        w == Head(req.todo)
        rows == SessionRows(req)
        found == UpsertMatches(rows, req.coach, w.garmin_workout_id)
        n == Cardinality(found)
        i == CHOOSE x \in found : TRUE
        row == NewWorkout(req.coach, w)
    IN /\ req.pc = "upserting"
       /\ req.todo # <<>>
       /\ IF n > 1
          THEN /\ last' = Request("fetch", req.coach, 500,
                                  <<FetchEntry(w, n, "raised")>>)
               /\ inflight' = [inflight EXCEPT ![r] = IdleFetch]
          ELSE /\ inflight' = [inflight EXCEPT ![r] =
                   IF n = 0
                   THEN [req EXCEPT !.todo = Tail(@),
                                    !.added = Append(@, row)]
                   ELSE IF i <= Len(workout_cache)
                   THEN [req EXCEPT
                            !.todo = Tail(@),
                            !.updated = [j \in DOMAIN @ \cup {i} |->
                                            IF j = i THEN row ELSE @[j]]]
                   ELSE [req EXCEPT
                            !.todo = Tail(@),
                            !.added[i - Len(workout_cache)] = row]]
               /\ UNCHANGED last
       /\ UNCHANGED <<shared_workouts, workouts, garmin_credentials, workout_cache>>

\* the flush after the loop and the response; the session is committed
FetchFinish(r) ==
    LET req == inflight[r] IN
    /\ req.pc = "upserting"
    /\ req.todo = <<>>
    /\ workout_cache' = Commit(FALSE, workout_cache, SessionRows(req))
    /\ last' = Request("fetch", req.coach, 200, <<>>)
    /\ inflight' = [inflight EXCEPT ![r] = IdleFetch]
    /\ UNCHANGED <<shared_workouts, workouts, garmin_credentials>>

\* what the remote service lists: at most MaxFetched workouts, g1 under
\* either of two sports
RemoteWorkouts ==
    [workoutId : {"g1"}, sportTypeKey : {S_run, S_swim}]
    \cup [workoutId : {"g2"}, sportTypeKey : {S_run}]

FetchBeginStep ==
    \E r \in Requests, coach \in Coaches, oc \in TestOutcomes :
        \E raw \in IF oc.login = "ok" /\ oc.call = "ok"
                   THEN SeqsUpTo(RemoteWorkouts, MaxFetched) ELSE {<<>>} :
            FetchBegin(r, coach, oc, raw)

FetchUpsertStep == \E r \in Requests : FetchUpsert(r)

FetchFinishStep == \E r \in Requests : FetchFinish(r)

InitFetch ==
    /\ workouts = [w \in WorkoutIds |-> "object"]
    /\ shared_workouts = <<>>
    /\ \E d \in BOOLEAN, c \in BOOLEAN :
           garmin_credentials =
               [u \in Users |->
                   IF u \in Coaches
                   THEN Some([ConnectedCredentials EXCEPT !.decryptable = d,
                                                          !.is_connected = c])
                   ELSE NULL]
    /\ last = Request("none", CoachId, 200, <<>>)
    /\ inflight = [r \in Requests |-> IdleFetch]
    /\ workout_cache = <<>>

NextFetch ==
    \/ FetchBeginStep
    \/ FetchUpsertStep
    \/ FetchFinishStep

SpecFetch == InitFetch /\ [][NextFetch]_vars

\* ================================================================ claims
ImportEntries ==
    IF last.op = "import" THEN {last.log[i] : i \in 1..Len(last.log)} ELSE {}

\* the requested id names a row of the caller
Owned(e) == e.pre # NULL /\ e.pre[1].athlete_id = last.user

Decryptable ==
    /\ garmin_credentials[last.user] # NULL
    /\ garmin_credentials[last.user][1].decryptable

\* the remote login succeeded and the upload returned an object carrying
\* workoutId = e.oc.id
RemoteAccepted(e) ==
    /\ Decryptable
    /\ workouts[e.pre[1].workout_id] = "object"
    /\ e.oc.login = "ok"
    /\ e.oc.save = "dict_id"

\* C1: a pending share of the caller, with a parseable payload, whose remote
\* login and upload succeed with external id X: the result is a success
\* carrying X, and the row is left imported with garmin_import_id = X and
\* imported_at set.
C1_Case(e) == Owned(e) /\ e.pre[1].status = "pending" /\ RemoteAccepted(e)

C1_ImportSuccess ==
    \A e \in ImportEntries :
        C1_Case(e) =>
            /\ e.result.success
            /\ e.result.shared_workout_id = e.sw_id
            /\ e.result.garmin_import_id = Some(ToString(e.oc.id))
            /\ e.post[1].status = "imported"
            /\ e.post[1].garmin_import_id = Some(ToString(e.oc.id))
            /\ e.post[1].imported_at # NULL
            /\ shared_workouts[e.sw_id] = e.post[1]

C1_Witness ==
    \E e \in ImportEntries :
        C1_Case(e) /\ e.result.success /\ e.post[1].status = "imported"

\* C2: whenever the adapter returns a failure for an item, the item's result
\* is a failure with the adapter's message, the row's status is failed (not
\* pending) and its import_error is that same message.
C2_Case(e) == e.svc # NULL /\ ~e.svc[1].success

C2_AdapterFailure ==
    \A e \in ImportEntries :
        C2_Case(e) =>
            /\ e.svc[1].message \in {MsgSvcAuth, MsgSvcConn, MsgSvcOther}
            /\ ~e.result.success
            /\ e.result.message = e.svc[1].message
            /\ e.post[1].status = "failed"
            /\ e.post[1].import_error = Some(e.svc[1].message)

C2_Witness ==
    \E e \in ImportEntries :
        /\ C2_Case(e)
        /\ e.oc.login = "auth"
        /\ e.pre[1].status = "pending"
        /\ e.post[1].status = "failed"
        /\ e.post[1].import_error = Some(MsgSvcAuth)

\* C3: importing a share that is already imported gives the "already
\* imported" failure, calls the adapter for no login or upload, and leaves
\* status, garmin_import_id and imported_at as they were.
C3_Case(e) == Owned(e) /\ e.pre[1].status = "imported"

C3_AlreadyImported ==
    \A e \in ImportEntries :
        C3_Case(e) =>
            /\ e.result = ImportWorkoutResult(e.sw_id, FALSE, MsgAlreadyImported, NULL)
            /\ e.svc = NULL
            /\ e.touched = {}
            /\ e.post[1].status = "imported"
            /\ e.post[1].garmin_import_id = e.pre[1].garmin_import_id
            /\ e.post[1].imported_at = e.pre[1].imported_at

C3_Witness ==
    \E e \in ImportEntries :
        /\ C3_Case(e)
        /\ e.pre[1].garmin_import_id # NULL
        /\ e.result.message = MsgAlreadyImported

\* C4: once a share's status is removed, no later import, remove or share
\* request changes that status.
C4_RemovedIsTerminal ==
    [][\A i \in 1..Len(shared_workouts) :
          shared_workouts[i].status = "removed"
              => shared_workouts'[i].status = "removed"]_vars

\* C5: for each workout of a share request: it is rejected, and no row is
\* added, while a pending or imported share of it to the athlete exists;
\* when no such share exists it is shared, and a new pending row exists.
ShareEntries ==
    IF last.op = "share" THEN {last.log[i] : i \in 1..Len(last.log)} ELSE {}

C5_ReshareRule ==
    \A e \in ShareEntries :
        e.workout # NULL =>
            /\ e.active > 0 => e.outcome # "shared" /\ e.row = NULL
            /\ e.active = 0 =>
                   /\ e.outcome = "shared"
                   /\ e.row # NULL
                   /\ e.row[1] \in 1..Len(shared_workouts)
                   /\ shared_workouts[e.row[1]] =
                          NewSharedWorkout(e.workout[1], e.athlete_id)

\* C6: importing a share whose cached payload does not deserialize gives the
\* corrupted-data failure, sets the row to failed with the corruption reason
\* in import_error, calls the adapter for nothing and leaves
\* garmin_import_id null.
C6_Case(e) == Owned(e) /\ workouts[e.pre[1].workout_id] = "corrupt"

C6_CorruptedData ==
    \A e \in ImportEntries :
        C6_Case(e) =>
            /\ e.result = ImportWorkoutResult(e.sw_id, FALSE, MsgCorrupted, NULL)
            /\ e.svc = NULL
            /\ e.post[1].status = "failed"
            /\ e.post[1].import_error = Some(ErrCorrupted)
            /\ e.post[1].garmin_import_id = NULL

C6_Witness ==
    \E e \in ImportEntries :
        C6_Case(e) /\ e.pre[1].status = "pending" /\ e.post[1].status = "failed"

\* C7: an id that names no row, or a row of another athlete, gives the
\* not-found result, no adapter call, and changes no row.
C7_Case(e) ==
    \/ e.sw_id \notin 1..Len(shared_workouts)
    \/ shared_workouts[e.sw_id].athlete_id # last.user

C7_NotFound ==
    \A e \in ImportEntries :
        C7_Case(e) =>
            /\ e.result = ImportWorkoutResult(e.sw_id, FALSE, MsgNotFound, NULL)
            /\ e.svc = NULL
            /\ e.touched = {}
            /\ e.post = e.pre

C7_Witness ==
    \E e \in ImportEntries :
        /\ e.pre # NULL
        /\ e.pre[1].athlete_id # last.user
        /\ e.result.message = MsgNotFound

\* C8: an import request of a caller with no credential record, or with one
\* whose is_connected is false, fails once with status 400: no per-item
\* result, no adapter call, no row changed.
C8_NotConnected ==
    [][(/\ last'.op = "import"
        /\ \/ garmin_credentials'[last'.user] = NULL
           \/ ~garmin_credentials'[last'.user][1].is_connected)
          => /\ last'.http = 400
             /\ last'.log = <<>>
             /\ shared_workouts' = shared_workouts]_vars

C8_Witness ==
    /\ last.op = "import"
    /\ last.http = 400
    /\ garmin_credentials[last.user] # NULL
    /\ ~garmin_credentials[last.user][1].is_connected
    /\ \E i \in 1..Len(shared_workouts) :
           /\ shared_workouts[i].athlete_id = last.user
           /\ shared_workouts[i].status \in {"pending", "failed"}

\* C9: a failed share of the caller is attempted again: the adapter is
\* called, it logs in and (the login accepted) uploads, and when the remote
\* accepts the upload the row moves from failed to imported.
C9_Case(e) ==
    /\ Owned(e)
    /\ e.pre[1].status = "failed"
    /\ workouts[e.pre[1].workout_id] = "object"
    /\ Decryptable

C9_RetryFailed ==
    \A e \in ImportEntries :
        C9_Case(e) =>
            /\ e.svc # NULL
            /\ e.svc[1].logins = 1
            /\ e.oc.login = "ok" => e.svc[1].uploads = 1
            /\ (e.oc.login = "ok" /\ e.oc.save \in {"dict_id", "dict_noid", "nondict"})
                   => e.post[1].status = "imported" /\ e.result.success

C9_Witness ==
    \E e \in ImportEntries :
        C9_Case(e) /\ e.svc[1].uploads = 1 /\ e.post[1].status = "imported"

\* C10: a removal request moves a share to removed only from pending or
\* imported.
C10_RemoveOnlyActive ==
    [][\A i \in 1..Len(shared_workouts) :
          (/\ last'.op = "remove"
           /\ shared_workouts[i].status # "removed"
           /\ shared_workouts'[i].status = "removed")
              => shared_workouts[i].status \in {"pending", "imported"}]_vars

\* C10 as amended: a removal request of the athlete a share was sent to
\* succeeds and leaves it removed whatever its status was (pending, imported,
\* failed or removed), changing no other column.
RemoveEntries ==
    IF last.op = "remove" THEN {last.log[i] : i \in 1..Len(last.log)} ELSE {}

C10_RemoveAnyStatus ==
    \A e \in RemoveEntries :
        Owned(e) =>
            /\ last.http = 200
            /\ shared_workouts[e.sw_id] = [e.pre[1] EXCEPT !.status = "removed"]

C10_Witness ==
    \E e \in RemoveEntries :
        /\ Owned(e)
        /\ e.pre[1].status = "failed"
        /\ shared_workouts[e.sw_id].status = "removed"

\* the sequence without its k-th element
Without(seq, k) == SubSeq(seq, 1, k - 1) \o SubSeq(seq, k + 1, Len(seq))

\* C11: an import request that passes the credential check answers with one
\* result per requested id, in request order; and for every item that failed,
\* each other item gets the result and the status it gets when the same
\* request is made without the failed item.
C11_BatchIndependence ==
    [][last'.op = "import" /\ last'.http # 400 =>
          LET ids == last'.input.ids
              ocs == last'.input.ocs
              log == last'.log
          IN /\ last'.http = 200
             /\ Len(log) = Len(ids)
             /\ \A i \in 1..Len(ids) : log[i].result.shared_workout_id = ids[i]
             /\ \A k \in 1..Len(ids) :
                    ~log[k].result.success =>
                        \A rest \in {ImportLoop(shared_workouts, workouts,
                                                garmin_credentials[last'.user][1],
                                                last'.user, Without(ids, k),
                                                Without(ocs, k), 1, <<>>).log} :
                           /\ Len(rest) = Len(ids) - 1
                           /\ \A j \in 1..Len(rest) :
                                  LET e == log[IF j < k THEN j ELSE j + 1] IN
                                  /\ rest[j].result = e.result
                                  /\ rest[j].post = NULL <=> e.post = NULL
                                  /\ e.post # NULL =>
                                         rest[j].post[1].status = e.post[1].status
      ]_vars

\* a batch whose first item failed at the adapter and whose second item, a
\* different share, was imported
C11_Witness ==
    /\ last.op = "import"
    /\ Len(last.log) = 2
    /\ last.log[1].svc # NULL
    /\ ~last.log[1].result.success
    /\ last.log[2].sw_id # last.log[1].sw_id
    /\ last.log[2].result.success
    /\ shared_workouts[last.log[1].sw_id].status = "failed"
    /\ shared_workouts[last.log[2].sw_id].status = "imported"

\* the call of a GarminService operation recorded in last
ServiceCalls ==
    IF last.op \in ServiceOperations THEN {last.log[1]} ELSE {}

\* an exception was raised inside the operation: by decrypt_value, by the
\* login or by the remote call
ExceptionInside(input) ==
    \/ ~input.decryptable
    \/ input.oc.login # "ok"
    \/ "call" \in DOMAIN input.oc /\ input.oc.call # "ok"
    \/ "save" \in DOMAIN input.oc /\ input.oc.save \in {"auth", "conn", "other"}

\* C12: no GarminService operation raises: whenever decryption, the login or
\* the remote call raises an exception, the operation returns a failure
\* value; and an import request that passed the credential check is never
\* ended by an exception of the adapter: it answers 200 with a result for
\* every requested id.
C12_ServiceNeverRaises ==
    /\ \A c \in ServiceCalls :
           /\ ~c.result.raised
           /\ ExceptionInside(c.input) => ~c.result.success
    /\ last.op = "import" =>
           /\ last.http \in {200, 400}
           /\ last.http = 200 =>
                  /\ Len(last.log) = Len(last.input.ids)
                  /\ \A e \in ImportEntries : e.svc # NULL => ~e.svc[1].raised

\* an import whose upload raised an exception that is neither of the two
\* Garmin exception classes, and that was answered with a failure result
C12_Witness ==
    \E e \in ImportEntries :
        /\ last.http = 200
        /\ e.oc.login = "ok"
        /\ e.oc.save = "other"
        /\ e.svc # NULL
        /\ e.svc[1].uploads = 1
        /\ e.svc[1].message = MsgSvcOther
        /\ ~e.result.success

\* C13: when the stored ciphertext of the caller cannot be decrypted, every
\* item that reaches the adapter gets a failure result of the unexpected
\* kind and its row becomes failed, with no login and no upload; nothing is
\* raised: the request answers 200 with a result for every requested id.
C13_Case(e) ==
    /\ Owned(e)
    /\ e.pre[1].status # "imported"
    /\ workouts[e.pre[1].workout_id] # "corrupt"
    /\ ~Decryptable

C13_DecryptFailure ==
    \A e \in ImportEntries :
        C13_Case(e) =>
            /\ e.svc # NULL
            /\ ~e.svc[1].raised
            /\ e.svc[1].logins = 0
            /\ e.svc[1].uploads = 0
            /\ e.svc[1].message = MsgSvcOther
            /\ e.result = ImportWorkoutResult(e.sw_id, FALSE, MsgSvcOther, NULL)
            /\ e.post[1].status = "failed"
            /\ shared_workouts[e.sw_id].status = "failed"
            /\ last.http = 200
            /\ Len(last.log) = Len(last.input.ids)

\* a batch of two different shares, both failed by the decryption
C13_Witness ==
    /\ last.op = "import"
    /\ Len(last.log) = 2
    /\ last.log[1].sw_id # last.log[2].sw_id
    /\ \A i \in 1..2 :
           /\ C13_Case(last.log[i])
           /\ last.log[i].pre[1].status = "pending"
           /\ last.log[i].post[1].status = "failed"

\* the successful calls of get_workouts recorded in last
FetchCalls ==
    IF last.op = "get_workouts" /\ last.log[1].result.success
    THEN {last.log[1]} ELSE {}

S_cyc == <<"c", "y", "c">>

\* the stated policy: case-insensitive, first match wins
PolicyType(raw_key) ==
    LET k == Lower(raw_key) IN
    IF Contains(k, S_run) THEN "running"
    ELSE IF Contains(k, S_bik) \/ Contains(k, S_cyc) THEN "cycling"
    ELSE IF Contains(k, S_swim) THEN "swimming"
    ELSE IF Contains(k, S_strength) \/ Contains(k, S_cardio) THEN "strength"
    ELSE "other"

\* C14: the workout type assigned during discovery is, for every sport key,
\* the one the stated substring policy gives ("run"; else "bik" or "cyc";
\* else "swim"; else "strength" or "cardio"; else other), and is one of the
\* five types.
C14_ClassifyPolicy ==
    \A c \in FetchCalls :
        /\ c.result.workouts[1].workout_type
               \in {"running", "cycling", "swimming", "strength", "other"}
        /\ c.result.workouts[1].workout_type = PolicyType(c.input.sportTypeKey)

\* C15: the payload the remote upload receives is the deserialized cached
\* payload without its top-level fields workoutId, ownerId, createdDate and
\* updatedDate, every other field as it was; and neither a call of
\* import_workout nor an import request changes the workout_data of a
\* Workout row.
C15_PayloadStripped ==
    [][last'.op \in {"import_workout", "import"} =>
          /\ workouts' = workouts
          /\ last'.op = "import_workout" =>
                 LET c == last'.log[1] IN
                 /\ c.result.sent # NULL <=>
                        (c.input.decryptable /\ c.input.oc.login = "ok")
                 /\ c.result.sent # NULL =>
                        /\ DOMAIN c.result.sent[1] =
                               DOMAIN c.input.workout_data
                                   \ {"workoutId", "ownerId", "createdDate",
                                      "updatedDate"}
                        /\ \A f \in DOMAIN c.result.sent[1] :
                               c.result.sent[1][f] = c.input.workout_data[f]
      ]_vars

\* an upload of a payload that had the four fields and two more
C15_Witness ==
    /\ last.op = "import_workout"
    /\ last.log[1].result.sent # NULL
    /\ DOMAIN last.log[1].input.workout_data = PayloadFields
    /\ DOMAIN last.log[1].result.sent[1] = {"workoutName", "sportType"}

\* the round trips under one server key recorded in last
RoundTrips ==
    IF /\ last.op = "decrypt_value"
       /\ last.log[1].input.encrypted_under = last.log[1].input.decrypted_under
    THEN {last.log[1]} ELSE {}

\* C16: for every plaintext P, decrypt_value(encrypt_value(P)) = P under the
\* same server key: the decryption raises nothing and returns P.
C16_EncryptRoundTrip ==
    \A c \in RoundTrips :
        /\ ~c.result.raised
        /\ c.result.value = c.input.plain

\* a round trip of a two-character plaintext with a character outside ASCII
C16_Witness ==
    \E c \in RoundTrips :
        /\ Len(c.input.plain) = 2
        /\ \E i \in 1..2 : c.input.plain[i] >= 128
        /\ c.result.value = c.input.plain

\* C17: a disconnect request that succeeds leaves its user without a
\* credential record; a user without one gets one only by a connect request
\* of theirs that succeeds; and every import request of a user without one is
\* rejected up front, changing no shared-workout row.
C17_DisconnectedUntilConnect ==
    [][\A u \in Athletes :
          /\ (last'.op = "disconnect" /\ last'.user = u /\ last'.http = 200)
                 => garmin_credentials'[u] = NULL
          /\ (garmin_credentials[u] = NULL /\ garmin_credentials'[u] # NULL)
                 => last' = Request("connect", u, 200, <<>>)
          /\ (garmin_credentials[u] = NULL /\ last'.op = "import" /\ last'.user = u)
                 => /\ last'.http = 400
                    /\ last'.log = <<>>
                    /\ shared_workouts' = shared_workouts
      ]_vars

\* an import rejected for a user who has no credential record any more: the
\* user's share carries the trace of an import made while connected
C17_Witness ==
    /\ last.op = "import"
    /\ last.http = 400
    /\ last.input.ids # <<>>
    /\ garmin_credentials[last.user] = NULL
    /\ \E i \in 1..Len(shared_workouts) :
           /\ shared_workouts[i].athlete_id = last.user
           /\ shared_workouts[i].status \in {"imported", "failed"}

\* C18: a remove request for a share sent to another athlete is answered
\* 404 and changes no row; and the status of a share changes only in an
\* import or remove request made by the athlete it was sent to.
C18_OnlyRecipient ==
    [][/\ (/\ last'.op = "remove"
           /\ last'.log[1].pre # NULL
           /\ last'.log[1].pre[1].athlete_id # last'.user)
              => last'.http = 404 /\ shared_workouts' = shared_workouts
       /\ \A i \in 1..Len(shared_workouts) :
              shared_workouts'[i].status # shared_workouts[i].status
                  => /\ last'.op \in {"import", "remove"}
                     /\ last'.user = shared_workouts[i].athlete_id
      ]_vars

\* a refused removal of another athlete's share, which is still active
C18_Witness ==
    /\ last.op = "remove"
    /\ last.http = 404
    /\ last.log[1].pre # NULL
    /\ last.log[1].pre[1].athlete_id # last.user
    /\ shared_workouts[last.log[1].sw_id] = last.log[1].pre[1]
    /\ shared_workouts[last.log[1].sw_id].status \in {"pending", "imported"}

\* C19: no lock excludes a second import request from a share between the
\* first one's read of its status and its write of the outcome: a request
\* that passed the credential check can always go on to select the row, and
\* one that selected it can always go on to the remote call.
C19_NoRowLock ==
    \A r \in Requests :
        /\ inflight[r].pc = "checked" => ENABLED Select(r)
        /\ inflight[r].pc = "selected" => ENABLED UploadStep

\* two requests for one share that both read it as pending and both uploaded
C19_Witness ==
    /\ inflight[1].sw_id = inflight[2].sw_id
    /\ \A r \in Requests :
           /\ inflight[r].pc \in {"uploaded", "done"}
           /\ inflight[r].shared # NULL
           /\ inflight[r].shared[1].status = "pending"
           /\ inflight[r].svc # NULL
           /\ inflight[r].svc[1].uploads = 1

\* the import requests cancelled mid-batch recorded in last
CancelledEntries ==
    IF last.op = "import_cancelled"
    THEN {last.log[i] : i \in 1..Len(last.log)} ELSE {}

\* C20: when an import request is cut short after some items have been
\* reconciled, the status written for each of those items is the status of
\* its row afterwards.
C20_CancelKeepsReconciled ==
    \A e \in CancelledEntries :
        e.post # NULL => shared_workouts[e.sw_id].status = e.post[1].status

\* C21: after any sequence of fetch requests, concurrent ones of one coach
\* included, table workouts holds at most one row per pair of coach and
\* garmin_workout_id.
C21_OneRowPerPair ==
    \A i, j \in 1..Len(workout_cache) :
        (/\ workout_cache[i].coach_id = workout_cache[j].coach_id
         /\ workout_cache[i].garmin_workout_id = workout_cache[j].garmin_workout_id)
            => i = j

\* C22: an import request makes, for each requested item, at most one
\* remote login and at most one remote upload: its log has one entry per
\* requested id, in order, and the adapter call of an entry (when there is
\* one) logged in at most once and uploaded at most once, also when the item
\* failed.
C22_AtMostOnce ==
    last.op = "import" /\ last.http = 200 =>
        /\ Len(last.log) = Len(last.input.ids)
        /\ \A k \in 1..Len(last.log) :
               LET e == last.log[k] IN
               /\ e.sw_id = last.input.ids[k]
               /\ e.svc # NULL =>
                      /\ e.svc[1].logins <= 1
                      /\ e.svc[1].uploads <= 1
                      /\ e.svc[1].uploads <= e.svc[1].logins

\* a batch naming one id twice: the login of the first item was rejected and
\* the item failed after that one login; the second item uploaded once
C22_Witness ==
    /\ last.op = "import"
    /\ Len(last.log) >= 2
    /\ last.log[1].sw_id = last.log[2].sw_id
    /\ last.log[1].svc # NULL
    /\ ~last.log[1].result.success
    /\ last.log[1].svc[1].logins = 1
    /\ last.log[1].svc[1].uploads = 0
    /\ last.log[2].svc # NULL
    /\ last.log[2].svc[1].uploads = 1

\* the exception the remote service made the operation of a call see:
\* "auth", "conn", "other", or "none"
RemoteFailure(input) ==
    IF ~input.decryptable THEN "none"
    ELSE IF input.oc.login # "ok" THEN input.oc.login
    ELSE IF "call" \in DOMAIN input.oc
    THEN (IF input.oc.call = "ok" THEN "none" ELSE input.oc.call)
    ELSE IF input.oc.save \in {"auth", "conn", "other"} THEN input.oc.save
    ELSE "none"

\* C23: each of the five operations reports an authentication rejection, a
\* connectivity failure and any other exception of the remote service as
\* distinguishable outcomes: two calls of one operation that met failures of
\* different kinds return different messages.
C23_ThreeOutcomes ==
    [][(/\ last.op \in ServiceOperations
        /\ last'.op = last.op
        /\ RemoteFailure(last.log[1].input) # "none"
        /\ RemoteFailure(last'.log[1].input) # "none"
        /\ RemoteFailure(last.log[1].input) # RemoteFailure(last'.log[1].input))
           => last.log[1].result.message # last'.log[1].result.message]_vars

\* C24: a share request adds rows to shared_workouts only when the user it
\* names exists, has the athlete role and is linked to the sharing coach.
C24_ShareTargetChecked ==
    [][(last'.op = "share" /\ Len(shared_workouts') > Len(shared_workouts)) =>
           \A i \in (Len(shared_workouts) + 1)..Len(shared_workouts') :
               LET a == shared_workouts'[i].athlete_id IN
               /\ a \in Users
               /\ UserRole[a] = "athlete"
               /\ UserCoach[a] = <<last'.user>>
      ]_vars

\* C25: in every reachable state at most one row of shared_workouts in
\* status pending or imported exists for a pair of workout and athlete.
C25_OneActiveShare ==
    \A w \in WorkoutIds, a \in Athletes :
        Cardinality(ActiveShares(shared_workouts, w, a)) <= 1

\* C26: in every reachable state a row of shared_workouts in status pending
\* or failed has garmin_import_id NULL and imported_at NULL.
C26_IdOnlyWhenImported ==
    \A i \in 1..Len(shared_workouts) :
        shared_workouts[i].status \in {"pending", "failed"} =>
            /\ shared_workouts[i].garmin_import_id = NULL
            /\ shared_workouts[i].imported_at = NULL

\* C27: in every reachable state a row of shared_workouts in status imported
\* has import_error NULL.
C27_NoErrorWhenImported ==
    \A i \in 1..Len(shared_workouts) :
        shared_workouts[i].status = "imported" =>
            shared_workouts[i].import_error = NULL

\* C28: a connect request whose connection test fails leaves the caller with
\* a credential record holding the submitted credentials, is_connected
\* false and connection_error set: the 400 response does not undo the
\* write.
C28_FailedConnectPersists ==
    [][(last'.op = "connect" /\ last'.http = 400) =>
           /\ garmin_credentials'[last'.user] # NULL
           /\ ~garmin_credentials'[last'.user][1].is_connected
           /\ garmin_credentials'[last'.user][1].connection_error # NULL
           /\ garmin_credentials'[last'.user][1].last_sync = NULL
      ]_vars

\* the items of an import request that the remote service rejected with an
\* authentication error
AuthRejected(req) ==
    {k \in 1..Len(req.log) :
        /\ req.log[k].svc # NULL
        /\ ~req.log[k].svc[1].raised
        /\ req.log[k].svc[1].message = MsgSvcAuth}

\* C29: an import request leaves every credential record as it was,
\* whatever the outcomes of its items; a request that passed the up-front
\* check leaves the caller's record passing it, also when an item was
\* rejected for authentication.
C29_CredentialsUntouched ==
    [][last'.op = "import" =>
           /\ garmin_credentials' = garmin_credentials
           /\ last'.http # 400 =>
                  ~NotConnected(garmin_credentials'[last'.user])
      ]_vars

\* share 1 was rejected for authentication by an earlier import and marked
\* failed; the caller's record is still marked connected, and the next
\* import, of share 2 alone, passed the check and uploaded
C29_Witness ==
    /\ shared_workouts[1].status = "failed"
    /\ shared_workouts[1].import_error = Some(MsgSvcAuth)
    /\ last.op = "import"
    /\ last.http = 200
    /\ Len(last.log) = 1
    /\ last.log[1].sw_id = 2
    /\ last.log[1].result.success
    /\ AuthRejected(last) = {}
    /\ garmin_credentials[last.user] # NULL
    /\ garmin_credentials[last.user][1].is_connected

\* C30: when an import request names a shared-workout id more than once and
\* the first occurrence was imported, every later occurrence in the request
\* gets the "already imported" result, without a call of the adapter and
\* without a write to any row.
C30_DuplicateInBatch ==
    last.op = "import" /\ last.http = 200 =>
        \A i, j \in 1..Len(last.log) :
            (/\ i < j
             /\ last.log[i].sw_id = last.log[j].sw_id
             /\ \A h \in 1..(i - 1) : last.log[h].sw_id # last.log[i].sw_id
             /\ last.log[i].result.success)
            => /\ ~last.log[j].result.success
               /\ last.log[j].result.message = MsgAlreadyImported
               /\ last.log[j].svc = NULL
               /\ last.log[j].touched = {}
               /\ last.log[j].post = last.log[i].post

\* a request naming share 1 twice, the remote service accepting both times:
\* the first item uploaded, the second did not
C30_Witness ==
    /\ last.op = "import"
    /\ last.http = 200
    /\ Len(last.log) = 2
    /\ last.log[1].sw_id = 1
    /\ last.log[2].sw_id = 1
    /\ last.log[1].result.success
    /\ last.log[1].svc # NULL
    /\ last.log[1].svc[1].uploads = 1
    /\ last.log[2].oc.login = "ok"
    /\ last.log[2].oc.save = "dict_id"
    /\ last.log[2].svc = NULL
    /\ shared_workouts[1].status = "imported"

====
